---- MODULE Spec2Model ----
(***************************************************************************)
(* Model of src/invoiceextractor.py: a Streamlit script that is re-run     *)
(* from top to bottom on every widget interaction.  One run reads the      *)
(* widgets (text input, file uploader, button), opens the uploaded file    *)
(* with PIL, and, when the button was clicked, either calls the Gemini     *)
(* client once inside try/except or shows a warning.                       *)
(*                                                                         *)
(* The call to client.models.generate_content blocks the run; the model    *)
(* splits a submitting run at that call (pc = "invoking") and lets the     *)
(* collaborator return a text or raise an error.                           *)
(***************************************************************************)
EXTENDS Naturals, Sequences, FiniteSets, TLC

\* Bound on the number of clicks on the submit button in one behaviour.
MaxSubmits == 2

\* ---------------------------------------------------------------- inputs

\* Python's None, for uploaded_file and image.
None == "None"

\* Values the user can type into st.text_input (the empty string included).
Questions == {"", "Who is the vendor?"}

\* Files the user can put into st.file_uploader.  The uploader filters on the
\* file extension only, so a file whose bytes are no image can be uploaded.
GoodFiles == {"invoice.png"}
BadFiles == {"corrupt.png"}
Files == GoodFiles \cup BadFiles

\* Texts the model can answer with and descriptions of errors it can raise.
Texts == {"Total: $42.00", "ACME Corp"}
Errors == {"upstream timed out", "quota exceeded"}

\* ------------------------------------------------------------- constants

system_prompt ==
    "\nYou are an expert in understanding invoices. We will upload an image of invoice and you will have to answer any question based on that\n"

WarningText == "Please upload an invoice image first."

\* ------------------------------------------------------ pure definitions

\* google.genai.types.Part(text=t)
Part(t) == [type |-> "text", data |-> t]

\* The PIL image object placed in the contents list as it is.
ImagePart(img) == [type |-> "image", data |-> img]

\* A mutant of Contents: the question before the image.
ContentsSwapped(sp, image_object, user_input) ==
    <<Part(sp), Part(user_input), ImagePart(image_object)>>

\* The contents list get_gemini_response builds.
Contents(sp, image_object, user_input) ==
    <<Part(sp), ImagePart(image_object), Part(user_input)>>

\* PIL.Image.open raises on bytes that are no image.
OpenRaises(f) == f \in BadFiles

\* PIL.Image.open on a file it can identify: an image object for that file.
Image_open(f) == "PIL:" \o f

\* A mutant of SubmitClicked: the button value is ignored.
SubmitIgnored(clicked) == TRUE

\* `if submit:`
SubmitClicked(clicked) == clicked

\* `if uploaded_file is not None and image is not None:`
HasImage(f, img) == f # None /\ img # None

\* What one run has put on the page below the widgets.
Shown(kind, text) == [kind |-> kind, text |-> text]

Blank == Shown("none", "")

\* Streamlit's rendering of an exception the script did not catch.
Uncaught == Shown("exception", "UnidentifiedImageError")

\* st.warning("Please upload an invoice image first.")
ShowWarning == Shown("warning", WarningText)

\* A mutant of ShowResponse: the text is stripped to nothing.
ShowResponseDropped(response) == Shown("success", "")

\* st.subheader("The response is "); st.write(response)
ShowResponse(response) == Shown("success", response)

\* A mutant of ErrorMessage: the prefix only.
ErrorMessageNoDetail(e) == "An error occurred while getting response from Gemini: "

\* f"An error occurred while getting response from Gemini: {e}"
ErrorMessage(e) == "An error occurred while getting response from Gemini: " \o e

\* A mutant of LogMessage: the prefix only.
LogMessageNoDetail(e) == "Full error during Gemini call: "

\* f"Full error during Gemini call: {e}"
LogMessage(e) == "Full error during Gemini call: " \o e

\* What the collaborator does with one call.
Returned(t) == [ok |-> TRUE, text |-> t]
Raised(e) == [ok |-> FALSE, text |-> e]
Replies == {Returned(t) : t \in Texts} \cup {Raised(e) : e \in Errors}

\* ----------------------------------------------------------------- state

VARIABLES
    input_text,     \* value of the text input widget
    uploaded_file,  \* value of the file uploader widget, or None
    submit,         \* value of the button in the current (last) run
    image,          \* the script's variable image in the current (last) run
    pc,             \* "idle": no run in progress; "invoking": in generate_content
    inflight,       \* contents of the calls the collaborator has not answered
    calls,          \* contents of every call made, in order
    runCalls,       \* calls made by the current (last) run
    display,        \* what the current (last) run has shown
    log,            \* lines printed to the console
    trigger,        \* interaction that started the current (last) run
    nSubmits,       \* clicks on the button so far
    results,        \* per finished submitting run: question, file, reply, shown
    stub            \* replies a deterministic collaborator has committed to

vars == <<input_text, uploaded_file, submit, image, pc, inflight, calls,
          runCalls, display, log, trigger, nSubmits, results, stub>>

NoStub == [p \in {} |-> Returned("")]

Init ==
    /\ input_text = ""
    /\ uploaded_file = None
    /\ submit = FALSE
    /\ image = None
    /\ pc = "idle"
    /\ inflight = <<>>
    /\ calls = <<>>
    /\ runCalls = 0
    /\ display = Blank
    /\ log = <<>>
    /\ trigger = "none"
    /\ nSubmits = 0
    /\ results = <<>>
    /\ stub = NoStub

Result(q, f, reply, shown) ==
    [question |-> q, file |-> f, reply |-> reply, shown |-> shown]

NoReply == [ok |-> FALSE, text |-> "<no call>"]

\* A mutant of CanRerun: a new run starts while a call is outstanding.
CanRerunAlways == TRUE

\* A run of the script blocks in generate_content until it returns or raises;
\* the next run starts only after the current one has ended.
CanRerun == pc = "idle"

\* ------------------------------------------------------------ script run

\* One run of the script with widget values q, f, clicked, up to the point
\* where it ends or blocks in generate_content.
Rerun(q, f, clicked) ==
    /\ CanRerun
    /\ input_text' = q
    /\ uploaded_file' = f
    /\ submit' = clicked
    /\ UNCHANGED <<log, stub>>
    /\ IF f # None /\ OpenRaises(f)
       THEN \* Image.open raises; nothing in the script catches it
            /\ image' = None
            /\ display' = Uncaught
            /\ pc' = "idle"
            /\ runCalls' = 0
            /\ UNCHANGED <<inflight, calls>>
            /\ results' = IF clicked
                          THEN Append(results, Result(q, f, NoReply, Uncaught))
                          ELSE results
       ELSE LET img == IF f # None THEN Image_open(f) ELSE None IN
            /\ image' = img
            /\ IF SubmitClicked(clicked)
               THEN IF HasImage(f, img)
                    THEN LET c == Contents(system_prompt, img, q) IN
                         /\ pc' = "invoking"
                         /\ inflight' = Append(inflight, c)
                         /\ calls' = Append(calls, c)
                         /\ runCalls' = 1
                         /\ display' = Blank
                         /\ UNCHANGED results
                    ELSE /\ pc' = "idle"
                         /\ display' = ShowWarning
                         /\ runCalls' = 0
                         /\ UNCHANGED <<inflight, calls>>
                         /\ results' = Append(results,
                                         Result(q, f, NoReply, ShowWarning))
               ELSE /\ pc' = "idle"
                    /\ display' = Blank
                    /\ runCalls' = 0
                    /\ UNCHANGED <<inflight, calls, results>>

\* The user edits the question: a run with the button not clicked.
TypeInput(q) ==
    /\ q # input_text
    /\ Rerun(q, uploaded_file, FALSE)
    /\ trigger' = "input"
    /\ UNCHANGED nSubmits

\* The user uploads, replaces or removes the file: a run with the button not
\* clicked.
UploadFile(f) ==
    /\ f # uploaded_file
    /\ Rerun(input_text, f, FALSE)
    /\ trigger' = "upload"
    /\ UNCHANGED nSubmits

\* The user clicks "Tell me about this invoice".
ClickSubmit ==
    /\ nSubmits < MaxSubmits
    /\ Rerun(input_text, uploaded_file, TRUE)
    /\ trigger' = "submit"
    /\ nSubmits' = nSubmits + 1

\* A mutant of Complete: the page keeps what it showed and appends to it.
CompleteAccumulating(reply) ==
    /\ pc = "invoking"
    /\ inflight # <<>>
    /\ LET shown == IF reply.ok
                    THEN Shown("success",
                               IF results = <<>> THEN reply.text
                               ELSE results[Len(results)].shown.text \o reply.text)
                    ELSE Shown("error", ErrorMessage(reply.text))
       IN /\ display' = shown
          /\ results' = Append(results,
                               Result(input_text, uploaded_file, reply, shown))
    /\ log' = IF reply.ok THEN log ELSE Append(log, LogMessage(reply.text))
    /\ pc' = "idle"
    /\ inflight' = Tail(inflight)
    /\ UNCHANGED <<input_text, uploaded_file, submit, image, calls, runCalls,
                   trigger, nSubmits>>

\* The rest of the submitting run once generate_content has returned a
\* response (reply.ok) or raised (otherwise).
Complete(reply) ==
    /\ pc = "invoking"
    /\ inflight # <<>>
    /\ LET shown == IF reply.ok
                    THEN ShowResponse(reply.text)
                    ELSE Shown("error", ErrorMessage(reply.text))
       IN /\ display' = shown
          /\ results' = Append(results,
                               Result(input_text, uploaded_file, reply, shown))
    /\ log' = IF reply.ok THEN log ELSE Append(log, LogMessage(reply.text))
    /\ pc' = "idle"
    /\ inflight' = Tail(inflight)
    /\ UNCHANGED <<input_text, uploaded_file, submit, image, calls, runCalls,
                   trigger, nSubmits>>

\* generate_content returns a response whose text is t.
GenerateReturns(t) == Complete(Returned(t)) /\ UNCHANGED stub

\* generate_content raises an exception whose description is e.
GenerateRaises(e) == Complete(Raised(e)) /\ UNCHANGED stub

\* A deterministic collaborator: the reply to given contents is chosen the
\* first time they are sent, and is the same every later time.
StubReplies(reply) ==
    /\ inflight # <<>>
    /\ LET c == Head(inflight) IN
       /\ c \in DOMAIN stub => reply = stub[c]
       /\ stub' = IF c \in DOMAIN stub THEN stub ELSE (c :> reply) @@ stub
    /\ Complete(reply)

Interact ==
    \/ \E q \in Questions : TypeInput(q)
    \/ \E f \in Files \cup {None} : UploadFile(f)
    \/ ClickSubmit

Respond ==
    \/ \E t \in Texts : GenerateReturns(t)
    \/ \E e \in Errors : GenerateRaises(e)

Next == Interact \/ Respond

Spec == Init /\ [][Next]_vars

\* The collaborator answers every call (it returns or it raises).
LiveSpec == Spec /\ WF_vars(Respond)

NextStub == Interact \/ (\E r \in Replies : StubReplies(r))

\* The same program against a deterministic collaborator.
SpecStub == Init /\ [][NextStub]_vars

\* ---------------------------------------------------------------- claims

\* The finished submitting runs in which generate_content raised.
ErrorResults == SelectSeq(results, LAMBDA r : r.reply # NoReply /\ ~r.reply.ok)

\* The finished submitting runs that made a call.
CalledResults == SelectSeq(results, LAMBDA r : r.reply # NoReply)

\* C1: every finished run started by a click on the button in which image is
\* None shows the warning "Please upload an invoice image first." and has made
\* no call to the collaborator.
C1_AbsentImageIsMissingInput ==
    (trigger = "submit" /\ pc = "idle" /\ image = None) =>
        /\ display = Shown("warning", "Please upload an invoice image first.")
        /\ runCalls = 0

\* C2: a run started by a click on the button in which image is an image
\* object makes exactly one call, whatever the question and whether the call
\* returns or raises, and the contents of that call are the system prompt, the
\* image and the question as typed, in this order.
C2_OneCallOrderedContents ==
    /\ (trigger = "submit" /\ image # None) =>
          /\ runCalls = 1
          /\ calls # <<>>
          /\ calls[Len(calls)] = << [type |-> "text", data |-> system_prompt],
                                    [type |-> "image", data |-> image],
                                    [type |-> "text", data |-> input_text] >>
    /\ Len(calls) = Len(CalledResults) + Len(inflight)

\* C2 witness: a submission with an empty question and an image has ended in
\* an error after its single call.
C2_Witness ==
    /\ trigger = "submit" /\ pc = "idle" /\ image # None /\ input_text = ""
    /\ display.kind = "error" /\ runCalls = 1

\* C3: when generate_content returns a response with text T, the run shows
\* exactly T as the answer, and shows neither the warning nor the error.
C3_SuccessShowsTextVerbatim ==
    /\ \A i \in DOMAIN results :
          results[i].reply.ok =>
              results[i].shown = [kind |-> "success", text |-> results[i].reply.text]
    /\ (trigger = "submit" /\ pc = "idle") => display = results[Len(results)].shown

\* C3 witness: a submission has shown the text the collaborator returned.
C3_Witness ==
    /\ trigger = "submit" /\ pc = "idle" /\ display.kind = "success"
    /\ results[Len(results)].reply = Returned("Total: $42.00")
    /\ input_text = ""

\* C4: when generate_content raises an error with description E, the run shows
\* the error "An error occurred while getting response from Gemini: " followed
\* by E, and no answer.
C4_ErrorIsCaughtAndPrefixed ==
    \A i \in DOMAIN results :
        (results[i].reply # NoReply /\ ~results[i].reply.ok) =>
            /\ results[i].shown.kind = "error"
            /\ results[i].shown.text =
                  "An error occurred while getting response from Gemini: "
                      \o results[i].reply.text
            /\ results[i].file \in GoodFiles

\* C4 witness: the scenario of an upstream timeout.
C4_Witness ==
    /\ trigger = "submit" /\ pc = "idle"
    /\ display = Shown("error",
         "An error occurred while getting response from Gemini: upstream timed out")

\* C5 as stated: every run in which generate_content raised has printed exactly
\* one console line, equal to the message shown to the user.
C5_LogEqualsUserMessage ==
    /\ Len(log) = Len(ErrorResults)
    /\ \A k \in DOMAIN log : log[k] = ErrorResults[k].shown.text

\* C5 amended: every run in which generate_content raised an error with
\* description E has printed exactly one console line, "Full error during
\* Gemini call: " followed by E; the line carries the same description as the
\* message shown to the user under another prefix.
C5_LogCarriesSameDescription ==
    /\ Len(log) = Len(ErrorResults)
    /\ \A k \in DOMAIN log :
          /\ log[k] = "Full error during Gemini call: " \o ErrorResults[k].reply.text
          /\ ErrorResults[k].shown.text =
                "An error occurred while getting response from Gemini: "
                    \o ErrorResults[k].reply.text

\* C5 witness: two failed submissions, two console lines.
C5_Witness ==
    /\ Len(log) = 2
    /\ log[1] = "Full error during Gemini call: quota exceeded"
    /\ pc = "idle"

\* C6: a finished run started by a click on the button while the uploaded file
\* cannot be opened as an image shows the warning "Please upload an invoice
\* image first." and has made no call.
C6_UndecodableFileIsMissingInput ==
    (trigger = "submit" /\ pc = "idle" /\ uploaded_file \in BadFiles) =>
        /\ display = Shown("warning", "Please upload an invoice image first.")
        /\ display.kind # "exception"
        /\ runCalls = 0

\* What a submission shows, as a function of its own question, file and reply.
Answer(q, f, reply) ==
    IF f \in BadFiles THEN Uncaught
    ELSE IF f = None THEN ShowWarning
    ELSE IF reply.ok THEN ShowResponse(reply.text)
    ELSE Shown("error", ErrorMessage(reply.text))

\* C7: what a submission shows depends only on its own question, file and the
\* collaborator's reply to it, whatever the earlier submissions ended in; and
\* after a run that ended in the warning or the error the next click on the
\* button is accepted.
C7_FailuresDoNotInfluenceLaterSubmissions ==
    /\ \A i \in DOMAIN results :
          results[i].shown =
              Answer(results[i].question, results[i].file, results[i].reply)
    /\ (display.kind \in {"warning", "error"}) => pc = "idle"
    /\ (pc = "idle" /\ nSubmits < MaxSubmits) => ENABLED ClickSubmit

\* C7 witness: a submission that succeeded right after one that failed.
C7_Witness ==
    \E i \in DOMAIN results :
        /\ i + 1 \in DOMAIN results
        /\ results[i].shown.kind \in {"warning", "error"}
        /\ results[i + 1].shown.kind = "success"

\* C8: against a deterministic collaborator, two submissions of the same
\* question and file show the same thing.
C8_SameInputsSameResult ==
    \A i, j \in DOMAIN results :
        (results[i].question = results[j].question /\ results[i].file = results[j].file)
            => results[i].shown = results[j].shown

\* C8 witness: the same question and image submitted twice in succession, each
\* with a call to the collaborator.
C8_Witness ==
    /\ Len(results) >= 2
    /\ results[1].question = results[2].question
    /\ results[1].file = results[2].file
    /\ results[1].file \in GoodFiles
    /\ Len(calls) >= 2

\* In every state the run is idle or blocked in its single call, and every
\* click so far has either produced exactly one result or is that call.
C9_AtMostOneInFlight ==
    /\ pc \in {"idle", "invoking"}
    /\ Len(inflight) <= 1
    /\ (pc = "invoking") <=> (Len(inflight) = 1)
    /\ Len(results) + Len(inflight) = nSubmits

C10_CallsOnlyOnSubmit ==
    /\ Len(calls) <= nSubmits
    /\ (trigger \in {"none", "input", "upload"}) =>
          /\ runCalls = 0
          /\ pc = "idle"
          /\ display.kind \notin {"success", "warning", "error"}

\* C10 witness: question typed and image uploaded after a submission, and only
\* that submission has made a call.
C10_Witness ==
    /\ trigger = "upload" /\ uploaded_file \in GoodFiles /\ input_text # ""
    /\ nSubmits = 1 /\ Len(calls) = 1

====
